---- MODULE Spec2Model ----
(***************************************************************************)
(* A model of the semantic chunker of mcp_embedded_docs                    *)
(* (src/mcp_embedded_docs/ingestion/chunker.py).                           *)
(*                                                                         *)
(* Text is a sequence of atoms.  In section text (titles, content, the     *)
(* context prefix) every atom is one character, so Len is the character    *)
(* length the code computes with len().  In the formatted text of a table  *)
(* the literal fragments of the f-strings are atoms of their own: the      *)
(* length of a table's text decides nothing in the code.                   *)
(*                                                                         *)
(* Offsets into a text are the 0-based offsets of Python: the character    *)
(* at offset i of s is s[i + 1].                                           *)
(***************************************************************************)
EXTENDS Integers, Sequences, FiniteSets, TLC

\* ------------------------------------------------------------------ bounds

\* Longest trimmed section content of the single-section documents.
MaxLen == 5
\* Largest target_size and overlap of a configuration.
MaxTarget == 6
MaxOverlap == 3
\* Iterations of the splitter loop the model follows in one section (the loop
\* of a terminating split ends within Len(content) iterations).
MaxIter == 8
\* Calls of chunk_document with the same arguments on one chunker.
MaxCalls == 2

\* ------------------------------------------------------------- characters

SP == " "
NL == "\n"
\* The characters section content is drawn from: a word character, a
\* sentence-ending mark, a space and a newline.
Alphabet == {"a", ".", SP, NL}

IsSpace(c) == c \in {SP, NL, "\t", "\r"}
IsSentenceEnd(c) == c \in {".", "!", "?"}

MinOf(S) == CHOOSE m \in S : \A o \in S : m <= o
MaxOf(S) == CHOOSE m \in S : \A o \in S : m >= o

\* str.strip(): the text without its leading and trailing whitespace.
Strip(s) ==
    LET keep == {k \in 1..Len(s) : ~IsSpace(s[k])}
    IN  IF keep = {} THEN <<>> ELSE SubSeq(s, MinOf(keep), MaxOf(keep))

\* Python's normalisation of a slice index of a text of length n: a negative
\* index counts from the end, and the result is clamped to 0..n.
SliceIndex(k, n) ==
    IF k < 0 THEN (IF k + n < 0 THEN 0 ELSE k + n)
    ELSE IF k > n THEN n ELSE k

\* s[lo:hi]
Slice(s, lo, hi) ==
    LET a == SliceIndex(lo, Len(s))
        b == SliceIndex(hi, Len(s))
    IN  IF a >= b THEN <<>> ELSE SubSeq(s, a + 1, b)

\* s.rfind(c, lo, hi): the greatest offset p with lo <= p < hi (as slice
\* indices) holding c, or -1.
RFind(s, c, lo, hi) ==
    LET a == SliceIndex(lo, Len(s))
        b == SliceIndex(hi, Len(s))
        hits == {p \in a..(b - 1) : s[p + 1] = c}
    IN  IF hits = {} THEN -1 ELSE MaxOf(hits)

\* The bounds a compiled pattern's finditer(string, pos, endpos) searches
\* between: clamped to 0..n, a negative one is 0.
ClampPos(k, n) == IF k < 0 THEN 0 ELSE IF k > n THEN n ELSE k

\* The end of the longest run of characters satisfying Test that starts at
\* offset p and ends at or before endpos (p itself when there is none).
RECURSIVE RunEnd(_, _, _, _)
RunEnd(s, p, endpos, nlOnly) ==
    IF p < endpos /\ (IF nlOnly THEN s[p + 1] = NL ELSE IsSpace(s[p + 1]))
    THEN RunEnd(s, p + 1, endpos, nlOnly)
    ELSE p

\* A match of \n\n+ starting at offset p: its end, or -1.
ParagraphMatchEnd(s, p, endpos) ==
    LET e == RunEnd(s, p, endpos, TRUE)
    IN  IF e >= p + 2 THEN e ELSE -1

\* A match of _SENTENCE_BOUNDARY_RE, (?<=[.!?])\s+|\n\n+, starting at offset
\* p: its end, or -1.  The lookbehind reads the character before p even when
\* it lies before the search's pos; the greedy runs stop at endpos.
SentenceMatchEnd(s, p, endpos) ==
    IF p >= 1 /\ IsSentenceEnd(s[p]) /\ RunEnd(s, p, endpos, FALSE) > p
    THEN RunEnd(s, p, endpos, FALSE)
    ELSE ParagraphMatchEnd(s, p, endpos)

\* [m.end() for m in pattern.finditer(s, pos, endpos)], scanning from p:
\* matches are found leftmost first and do not overlap.
RECURSIVE ScanMatches(_, _, _, _)
ScanMatches(s, p, endpos, sentence) ==
    IF p >= endpos THEN <<>>
    ELSE LET e == IF sentence THEN SentenceMatchEnd(s, p, endpos)
                  ELSE ParagraphMatchEnd(s, p, endpos)
         IN  IF e >= 0 THEN <<e>> \o ScanMatches(s, e, endpos, sentence)
             ELSE ScanMatches(s, p + 1, endpos, sentence)

\* [m.end() for m in _SENTENCE_BOUNDARY_RE.finditer(s, pos, endpos)]
SentenceEnds(s, pos, endpos) ==
    ScanMatches(s, ClampPos(pos, Len(s)), ClampPos(endpos, Len(s)), TRUE)

\* _find_sentence_boundaries(text)
FindSentenceBoundaries(text) == SentenceEnds(text, 0, Len(text))

\* [m.end() for m in re.finditer(r'\n\n+', content)]
ParagraphEnds(content) == ScanMatches(content, 0, Len(content), FALSE)

\* ------------------------------------------------------------------- data

\* None, where a text may be absent, and the truth value Python gives an
\* optional text ("if x:"): None and the empty text are false.
None == <<"None">>
Truthy(v) == v # None /\ v # <<>>

\* Section(title, level, content, start_page, end_page, subsections)
Section(t, lvl, c, subs) ==
    [title |-> t, level |-> lvl, content |-> c,
     start_page |-> lvl, end_page |-> lvl + 1, subsections |-> subs]

\* Field and Register of a RegisterTable.
Field(n, b) ==
    [name |-> n, bits |-> b, bit_range |-> <<0, 0>>, access |-> <<"RW">>,
     description |-> <<>>, reset_value |-> None]
Register(n, addr, off, w, rst, acc, desc, fs) ==
    [name |-> n, address |-> addr, offset |-> off, width |-> w,
     reset_value |-> rst, access |-> acc, description |-> desc, fields |-> fs]
RegisterTable(p, ctx, tt, regs) ==
    [peripheral |-> p, context |-> ctx, table_type |-> tt, registers |-> regs]

\* str(width) for the widths the model uses.
IntStr(n) == CASE n = 8 -> <<"8">> [] n = 16 -> <<"16">> [] n = 32 -> <<"32">> [] OTHER -> <<"?">>

\* "sep".join(parts) for texts.
RECURSIVE JoinText(_, _)
JoinText(parts, sep) ==
    IF parts = <<>> THEN <<>>
    ELSE IF Len(parts) = 1 THEN parts[1]
    ELSE parts[1] \o sep \o JoinText(Tail(parts), sep)

\* [x for x in xs if x]
RECURSIVE NonEmpty(_)
NonEmpty(xs) ==
    IF xs = <<>> THEN <<>>
    ELSE (IF Truthy(xs[1]) THEN <<xs[1]>> ELSE <<>>) \o NonEmpty(Tail(xs))

\* _build_context_prefix(doc_title, section_hierarchy)
BuildContextPrefix(title, section_hierarchy) ==
    LET parts == NonEmpty(<<title>> \o section_hierarchy)
    IN  IF parts = <<>> THEN <<>>
        ELSE <<"[">> \o JoinText(parts, <<SP, ">", SP>>) \o <<"]", NL>>

\* hashlib.md5(text.encode()).hexdigest()[:12], taken to be free of
\* collisions: the digest of a text is a token that names the text.
Md5Hex12(text) == <<"md5">> \o text

\* f"{doc_id}_{chunk_hash}"
ChunkId(d, text) == <<d, "_", Md5Hex12(text)>>

\* table.table_type.value.replace('_', ' ').title()
TypeTitle(tt) ==
    CASE tt = "register_map" -> <<"Register Map">>
      [] tt = "bitfield_definition" -> <<"Bitfield Definition">>
      [] tt = "memory_map" -> <<"Memory Map">>
      [] OTHER -> <<"Other">>

\* The detail line with the reset value appended after the access.
RegisterDetailsResetLast(r) ==
    JoinText(
        (IF Truthy(r.address) THEN << <<"Address: ">> \o r.address >> ELSE <<>>)
        \o (IF Truthy(r.offset) THEN << <<"Offset: ">> \o r.offset >> ELSE <<>>)
        \o << <<"Width: ">> \o IntStr(r.width) \o <<"-bit">> >>
        \o << <<"Access: ">> \o r.access >>
        \o (IF Truthy(r.reset_value)
            THEN << <<"Reset: ">> \o r.reset_value >> ELSE <<>>),
        <<" | ">>)

\* The detail line of one register: " | ".join(details).
RegisterDetails(r) ==
    JoinText(
        (IF Truthy(r.address) THEN << <<"Address: ">> \o r.address >> ELSE <<>>)
        \o (IF Truthy(r.offset) THEN << <<"Offset: ">> \o r.offset >> ELSE <<>>)
        \o << <<"Width: ">> \o IntStr(r.width) \o <<"-bit">> >>
        \o (IF Truthy(r.reset_value)
            THEN << <<"Reset: ">> \o r.reset_value >> ELSE <<>>)
        \o << <<"Access: ">> \o r.access >>,
        <<" | ">>)

\* The lines _format_table_as_text appends for the fields of a register.
RECURSIVE FieldLines(_)
FieldLines(fs) ==
    IF fs = <<>> THEN <<>>
    ELSE << <<"  - ">> \o fs[1].name \o <<" [">> \o fs[1].bits \o <<"]: ">>
            \o fs[1].description \o <<" (">> \o fs[1].access \o <<")">> >>
         \o FieldLines(Tail(fs))

\* The lines _format_table_as_text appends for the registers of a table.
RECURSIVE RegisterLines(_)
RegisterLines(regs) ==
    IF regs = <<>> THEN <<>>
    ELSE LET r == regs[1]
         IN  << <<"## ">> \o r.name, RegisterDetails(r) >>
             \o (IF Truthy(r.description)
                 THEN << <<"Description: ">> \o r.description >> ELSE <<>>)
             \o (IF r.fields # <<>>
                 THEN << <<NL, "Fields:">> >> \o FieldLines(r.fields) ELSE <<>>)
             \o << <<>> >>
             \o RegisterLines(Tail(regs))

\* _format_table_as_text(table)
FormatTableAsText(table) ==
    JoinText(
        << <<"# ">> \o table.peripheral \o <<" - ">> \o TypeTitle(table.table_type),
           <<>> >>
        \o (IF Truthy(table.context)
            THEN << <<"Context: ">> \o table.context, <<>> >> ELSE <<>>)
        \o RegisterLines(table.registers),
        <<NL>>)

\* _format_table_as_json(table): the dict, as its key/value pairs in order.
\* Registers and fields are copied field by field, as the records they are.
FormatTableAsJson(table) ==
    << <<"peripheral", table.peripheral>>, <<"table_type", table.table_type>>,
       <<"context", table.context>>, <<"registers", table.registers>> >>

\* [r.name for r in table.registers]
RegisterNames(table) == [k \in 1..Len(table.registers) |-> table.registers[k].name]

\* ------------------------------------------------------------------ state

VARIABLES
    target_size,      \* self.target_size
    overlap,          \* self.overlap
    preserve_tables,  \* self.preserve_tables
    doc_id,           \* the arguments of chunk_document
    sections,
    tables,
    doc_title,
    table_pages,
    pc,               \* where the call is: "tables", "sections", "split", "done"
    chunks,           \* the chunks built so far, in the order they are appended
    stack,            \* the active calls of _chunk_sections, innermost last
    split,            \* the locals of the active call of _split_section
    result,           \* what chunk_document returned
    calls,            \* how many calls of chunk_document have been started
    previous          \* what the call before this one returned

\* The state of a TableDetector at work on one page.
VARIABLES
    page,             \* the Page given to detect_register_tables
    keywords,         \* the keyword set given to _classify_table_type
    dpc,              \* where the detector is: "idle", "group", "rows",
                      \* "detected", "context", "classify", "classified"
    rows,             \* rows, the result of _group_blocks_into_rows
    row_idx,          \* i of "for i, row in enumerate(rows)"
    regions,          \* the local list `tables` of detect_register_tables
    detected,         \* what detect_register_tables returned
    context,          \* the last call of detect_table_context and its result
    classified        \* what _classify_table_type returned

\* The state of a call of ingest_pdf and of the index it writes to.
VARIABLES
    request,          \* pdf_path: whether the file exists and is named *.pdf,
                      \* and the ids of the chunks its document gives
    ipc,              \* where ingest_pdf is
    ichunks,          \* chunks, the result of chunker.chunk_document
    chunk_idx,        \* the chunks "for chunk in chunks" has passed
    metadata,         \* the metadata store: its database and its connection
    vectors,          \* the ids the VectorStore holds in memory
    saved,            \* the ids of the vector file of the index directory
    message,          \* what ingest_pdf returned
    before            \* the index when ingest_pdf was called

chunker == <<target_size, overlap, preserve_tables, doc_id, sections, tables,
             doc_title, table_pages, pc, chunks, stack, split, result, calls,
             previous>>
detector == <<page, keywords, dpc, rows, row_idx, regions, detected, context,
              classified>>
ingestion == <<request, ipc, ichunks, chunk_idx, metadata, vectors, saved,
               message, before>>
vars == <<chunker, detector, ingestion>>

config == <<target_size, overlap, preserve_tables>>
args == <<doc_id, sections, tables, doc_title, table_pages>>
history == <<calls, previous>>

\* No call of _split_section is active.
NoSplit ==
    [section |-> Section(<<>>, 0, <<>>, <<>>), path |-> <<>>, prefix |-> <<>>,
     content |-> <<>>, boundaries |-> <<>>, budget |-> 0,
     start |-> 0, end |-> 0, iter |-> 0]

\* ------------------------------------------------------------ table pass

\* table_pages.get(i, 0)
PageOf(pages, i) == IF i \in DOMAIN pages THEN pages[i] ELSE 0

\* The hierarchy _chunk_tables builds from peripheral and context.
TableHierarchy(table) ==
    (IF Truthy(table.peripheral) THEN <<table.peripheral>> ELSE <<>>)
    \o (IF Truthy(table.context) THEN <<table.context>> ELSE <<>>)

\* The text of the chunk of a table: prefix + _format_table_as_text(table).
TableText(table) ==
    BuildContextPrefix(doc_title, TableHierarchy(table)) \o FormatTableAsText(table)

\* The Chunk the loop of _chunk_tables builds for tables[i + 1], the table
\* enumerate() numbers i.  origin is not a field of the code's Chunk: it
\* records which input the chunk was built from.
TableChunk(i) ==
    LET table == tables[i + 1]
        text == TableText(table)
        page_num == PageOf(table_pages, i)
    IN  [id |-> ChunkId(doc_id, text),
         doc_id |-> doc_id,
         chunk_type |-> table.table_type,
         text |-> text,
         structured_data |-> FormatTableAsJson(table),
         metadata |-> [peripheral |-> table.peripheral,
                       table_type |-> table.table_type,
                       context |-> table.context,
                       register_names |-> RegisterNames(table)],
         page_start |-> page_num,
         page_end |-> page_num,
         origin |-> [kind |-> "table", index |-> i, path |-> <<>>,
                     start |-> 0, end |-> 0]]

\* _chunk_tables keeping tables whole only when preserve_tables is set.
ChunkTablesHonoringFlag ==
    IF preserve_tables THEN [k \in 1..Len(tables) |-> TableChunk(k - 1)] ELSE <<>>

\* _chunk_tables walking the tables last to first.
ChunkTablesReversed == [k \in 1..Len(tables) |-> TableChunk(Len(tables) - k)]

\* _chunk_tables(doc_id, tables, doc_title, table_pages)
ChunkTablesResult == [k \in 1..Len(tables) |-> TableChunk(k - 1)]

\* ---------------------------------------------------------- section pass

\* The Chunk built for the text of a leaf section, whole or a piece
\* content[s:e] of it.
TextChunk(section, text, path, s, e) ==
    [id |-> ChunkId(doc_id, text),
     doc_id |-> doc_id,
     chunk_type |-> "text",
     text |-> text,
     structured_data |-> None,
     metadata |-> [section_title |-> section.title,
                   section_level |-> section.level],
     page_start |-> section.start_page,
     page_end |-> section.end_page,
     origin |-> [kind |-> "section", index |-> 0, path |-> path,
                 start |-> s, end |-> e]]

\* The fit test without the prefix.
FitsIgnoringPrefix(prefix, content) == Len(content) <= target_size

\* Whether a leaf's prefix and content fit one chunk.
FitsSingleChunk(prefix, content) == Len(prefix) + Len(content) <= target_size

\* The budget without the prefix taken off.
SplitBudgetIgnoresPrefix(prefix) == target_size

\* budget = self.target_size - len(prefix): the room for text in one piece.
SplitBudget(prefix) == target_size - Len(prefix)

\* The boundary list _split_section works with: the sentence boundaries,
\* or the paragraph breaks when there is none.
SplitBoundaries(content) ==
    LET found == FindSentenceBoundaries(content)
    IN  IF found = <<>> THEN ParagraphEnds(content) ELSE found

\* The scan of the boundary list for `best`: <<>> is None.
RECURSIVE BestBoundary(_, _, _, _)
BestBoundary(bs, st, en, best) ==
    IF bs = <<>> THEN best
    ELSE IF bs[1] <= st THEN BestBoundary(Tail(bs), st, en, best)
    ELSE IF bs[1] <= en THEN BestBoundary(Tail(bs), st, en, <<bs[1]>>)
    ELSE best

\* The `end` one iteration of the splitter loop settles on.
ChunkEnd(content, boundaries, st, budget) ==
    LET end == st + budget
    IN  IF end >= Len(content) THEN Len(content)
        ELSE LET best == BestBoundary(boundaries, st, end, <<>>)
                 space_pos == RFind(content, SP, st, end)
             IN  IF best # <<>> THEN best[1]
                 ELSE IF space_pos > st THEN space_pos + 1
                 ELSE end

\* _compute_overlap_start searching the whole piece, not its last `overlap`
\* characters.
ComputeOverlapStartWholePiece(content, chunk_start, chunk_end) ==
    LET boundaries_in_region == SentenceEnds(content, chunk_start, chunk_end)
        n == Len(boundaries_in_region)
    IN  IF n >= 2 THEN boundaries_in_region[n - 1]
        ELSE IF n = 1 THEN boundaries_in_region[1]
        ELSE chunk_end

\* _compute_overlap_start(content, chunk_start, chunk_end)
ComputeOverlapStart(content, chunk_start, chunk_end) ==
    LET region_start == IF chunk_start >= chunk_end - overlap
                        THEN chunk_start ELSE chunk_end - overlap
        boundaries_in_region == SentenceEnds(content, region_start, chunk_end)
        n == Len(boundaries_in_region)
    IN  IF n >= 2 THEN boundaries_in_region[n - 1]
        ELSE IF n = 1 THEN boundaries_in_region[1]
        ELSE chunk_end

\* NextStart with the fallback one character too far.
NextStartSkips(content, st, end) ==
    LET overlap_start == ComputeOverlapStart(content, st, end)
    IN  IF overlap_start < end THEN overlap_start ELSE end + 1

\* The `start` of the next iteration.
NextStart(content, st, end) ==
    LET overlap_start == ComputeOverlapStart(content, st, end)
    IN  IF overlap_start < end THEN overlap_start ELSE end

\* The text of the piece content[st:end].
PieceText(prefix, content, st, end) == prefix \o Strip(Slice(content, st, end))

\* Whether the piece is appended: "if chunk_text.strip():".
PieceEmitted(chunk_text) == Strip(chunk_text) # <<>>

\* ----------------------------------------------------------------- inputs

\* Every text of at most n characters.
Texts(n) == UNION {[1..k -> Alphabet] : k \in 0..n}

\* Section contents of the single-section documents: every text of at most
\* MaxLen characters that trimming leaves as it is, and some that it shortens.
SingleContents ==
    {s \in Texts(MaxLen) : Strip(s) = s}
    \cup {<<SP, NL>>, <<SP, "a", NL>>, <<NL, "a", ".", SP, "a", SP>>}

\* Section contents of the documents with several sections.
ShortContent == <<"a", ".", SP, "a">>
LongContent == <<SP, "a", ".", SP, "a", ".", SP, "a">>
TreeContents == {<<>>, ShortContent, LongContent}

Leaf(t, lvl, c) == Section(t, lvl, c, <<>>)

\* Section trees: two leaves side by side, a parent of two leaves followed
\* by a leaf, and a leaf two levels down.  Every parent has content of its own.
TreeSections ==
    {<<Leaf(t, 1, c1), Leaf(t, 1, c2)>> :
        t \in {<<>>, <<"T">>}, c1 \in TreeContents, c2 \in TreeContents}
    \cup
    {<<Section(n, 1, ShortContent, <<Leaf(<<>>, 2, c1), Leaf(<<"U">>, 2, c2)>>),
       Leaf(<<>>, 1, c3)>> :
        n \in {<<>>, <<"N">>}, c1 \in TreeContents, c2 \in TreeContents,
        c3 \in TreeContents}
    \cup
    {<<Section(n, 1, LongContent,
               <<Section(<<>>, 2, ShortContent, <<Leaf(t, 3, c1)>>)>>)>> :
        n \in {<<>>, <<"N">>}, t \in {<<>>, <<"T">>}, c1 \in TreeContents}

RegA == Register(<<"MCR">>, None, None, 32, None, <<"RW">>, None, <<>>)
RegB == Register(<<"SR">>, <<"0x10">>, <<"0x4">>, 16, <<"0x0">>, <<"RO">>,
                 <<"status">>, <<Field(<<"EN">>, <<"0">>)>>)
TableA == RegisterTable(<<"P">>, <<>>, "register_map", <<RegA>>)
TableB == RegisterTable(<<>>, <<"C">>, "memory_map", <<RegA, RegB>>)
TableC == RegisterTable(None, None, "other", <<>>)
RegC == Register(<<"CR">>, <<"0x20">>, <<>>, 8, <<"0x1">>, <<"WO">>, <<>>, <<>>)
RegD == Register(<<"DR">>, None, <<"0x8">>, 32, None, <<"RW">>, None,
                 <<Field(<<"D">>, <<"7:0">>)>>)
TableD == RegisterTable(<<"Q">>, <<"C">>, "bitfield_definition", <<RegC, RegD, RegA>>)

\* Lists of tables: none, one, several, and the same table twice.
TableLists ==
    {<<>>, <<TableC>>, <<TableA, TableB>>, <<TableA, TableB, TableA>>, <<TableD>>}

\* A document of one leaf section and no table, under every configuration.
InitSingle ==
    /\ target_size \in 1..MaxTarget
    /\ overlap \in 0..MaxOverlap
    /\ preserve_tables = TRUE
    /\ doc_title \in {<<>>, <<"D">>}
    /\ \E c \in SingleContents : sections = <<Leaf(<<>>, 1, c)>>
    /\ tables = <<>>
    /\ table_pages = <<>>

\* A document of several sections and tables.
InitTree ==
    /\ target_size \in {MaxTarget - 1, MaxTarget}
    /\ overlap = MaxOverlap
    /\ \/ preserve_tables = TRUE /\ table_pages = <<>>
       \/ preserve_tables = FALSE /\ table_pages = (0 :> 3)
    /\ doc_title \in {<<>>, <<"D">>}
    /\ sections \in TreeSections
    /\ tables \in TableLists

\* chunk_document has been called: chunks = [].
Called ==
    /\ doc_id = "doc"
    /\ pc = "tables"
    /\ chunks = <<>>
    /\ stack = <<>>
    /\ split = NoSplit
    /\ result = None
    /\ calls = 1
    /\ previous = None

\* No TableDetector is at work.
NoContext == [region |-> 0, context_lines |-> 0, text |-> <<>>]
DetectorIdle ==
    /\ page = [page_num |-> 0, blocks |-> <<>>]
    /\ keywords = {}
    /\ dpc = "idle"
    /\ rows = <<>>
    /\ row_idx = 0
    /\ regions = <<>>
    /\ detected = <<>>
    /\ context = NoContext
    /\ classified = "none"

\* ingest_pdf has not been called, and nothing is indexed.
IngestIdle ==
    /\ request = [exists |-> FALSE, is_pdf |-> FALSE, chunk_ids |-> <<>>]
    /\ ipc = "idle"
    /\ ichunks = <<>>
    /\ chunk_idx = 0
    /\ metadata = [autocommit |-> TRUE, documents |-> {}, chunks |-> {},
                   pending_documents |-> {}, pending_chunks |-> {}]
    /\ vectors = <<>>
    /\ saved = <<>>
    /\ message = "none"
    /\ before = [documents |-> {}, chunks |-> {}, saved |-> <<>>]

Init == (InitSingle \/ InitTree) /\ Called /\ DetectorIdle /\ IngestIdle

\* ---------------------------------------------------------------- actions

\* chunk_document, to the call of _chunk_sections: the table chunks are
\* appended and the walk of the section list starts with no ancestors.
ChunkTables ==
    /\ pc = "tables"
    /\ chunks' = chunks \o ChunkTablesResult
    /\ stack' = <<[sections |-> sections, k |-> 1, ancestors |-> <<>>, path |-> <<>>]>>
    /\ pc' = "sections"
    /\ UNCHANGED <<ingestion, detector, config, args, split, result, history>>

\* The frame of the innermost call of _chunk_sections and the section its
\* loop is at.
Top == stack[Len(stack)]
HasSection == pc = "sections" /\ stack # <<>> /\ Top.k <= Len(Top.sections)
CurSection == Top.sections[Top.k]
CurHierarchy == Top.ancestors \o <<CurSection.title>>
CurPath == Top.path \o <<Top.k>>
CurPrefix == BuildContextPrefix(doc_title, CurHierarchy)
CurContent == Strip(CurSection.content)
Advanced == [stack EXCEPT ![Len(stack)].k = @ + 1]

\* A section with subsections chunked like a leaf before the recursion.
DescendChunkingOwnContent ==
    /\ HasSection
    /\ CurSection.subsections # <<>>
    /\ chunks' = Append(chunks, TextChunk(CurSection, CurPrefix \o CurContent,
                                          CurPath, 0, Len(CurContent)))
    /\ stack' = Append(Advanced, [sections |-> CurSection.subsections, k |-> 1,
                                  ancestors |-> CurHierarchy, path |-> CurPath])
    /\ UNCHANGED <<ingestion, detector, config, args, pc, split, result, history>>

\* A section with subsections: recurse into them, its own content unread.
Descend ==
    /\ HasSection
    /\ CurSection.subsections # <<>>
    /\ stack' = Append(Advanced, [sections |-> CurSection.subsections, k |-> 1,
                                  ancestors |-> CurHierarchy, path |-> CurPath])
    /\ UNCHANGED <<ingestion, detector, config, args, pc, chunks, split, result, history>>

\* A leaf whose trimmed content is empty: continue.
SkipEmpty ==
    /\ HasSection
    /\ CurSection.subsections = <<>>
    /\ CurContent = <<>>
    /\ stack' = Advanced
    /\ UNCHANGED <<ingestion, detector, config, args, pc, chunks, split, result, history>>

\* A leaf that fits: one chunk of prefix + content.
EmitSingle ==
    /\ HasSection
    /\ CurSection.subsections = <<>>
    /\ CurContent # <<>>
    /\ FitsSingleChunk(CurPrefix, CurContent)
    /\ chunks' = Append(chunks, TextChunk(CurSection, CurPrefix \o CurContent,
                                          CurPath, 0, Len(CurContent)))
    /\ stack' = Advanced
    /\ UNCHANGED <<ingestion, detector, config, args, pc, split, result, history>>

\* A leaf that does not fit: _split_section is called, to its loop.
EnterSplit ==
    /\ HasSection
    /\ CurSection.subsections = <<>>
    /\ CurContent # <<>>
    /\ ~FitsSingleChunk(CurPrefix, CurContent)
    /\ split' = [section |-> CurSection, path |-> CurPath, prefix |-> CurPrefix,
                 content |-> Strip(CurSection.content),
                 boundaries |-> SplitBoundaries(Strip(CurSection.content)),
                 budget |-> SplitBudget(CurPrefix),
                 start |-> 0, end |-> 0, iter |-> 0]
    /\ stack' = Advanced
    /\ pc' = "split"
    /\ UNCHANGED <<ingestion, detector, config, args, chunks, result, history>>

\* One iteration of the loop of _split_section.
SplitStep ==
    /\ pc = "split"
    /\ split.start < Len(split.content)
    /\ split.iter < MaxIter
    /\ LET end == ChunkEnd(split.content, split.boundaries, split.start, split.budget)
           chunk_text == PieceText(split.prefix, split.content, split.start, end)
       IN  /\ chunks' = IF PieceEmitted(chunk_text)
                        THEN Append(chunks, TextChunk(split.section, chunk_text,
                                                      split.path, split.start, end))
                        ELSE chunks
           /\ split' = [split EXCEPT !.start = NextStart(split.content, split.start, end),
                                     !.end = end,
                                     !.iter = @ + 1]
    /\ UNCHANGED <<ingestion, detector, config, args, pc, stack, result, history>>

\* The loop of _split_section ends and its chunks join the caller's.
SplitReturn ==
    /\ pc = "split"
    /\ ~(split.start < Len(split.content))
    /\ split' = NoSplit
    /\ pc' = "sections"
    /\ UNCHANGED <<ingestion, detector, config, args, chunks, stack, result, history>>

\* A call of _chunk_sections for subsections returns to its caller's loop.
Ascend ==
    /\ pc = "sections"
    /\ Len(stack) > 1
    /\ Top.k > Len(Top.sections)
    /\ stack' = SubSeq(stack, 1, Len(stack) - 1)
    /\ UNCHANGED <<ingestion, detector, config, args, pc, chunks, split, result, history>>

\* The outermost call of _chunk_sections returns and chunk_document returns
\* the chunks.
Return ==
    /\ pc = "sections"
    /\ Len(stack) = 1
    /\ Top.k > Len(Top.sections)
    /\ stack' = <<>>
    /\ result' = chunks
    /\ pc' = "done"
    /\ UNCHANGED <<ingestion, detector, config, args, chunks, split, history>>

\* A second call with the same arguments.  It keeps the list the first one
\* returned: `chunks` as an attribute of the chunker, not a local.
CallAgainKeepingChunks ==
    /\ pc = "done"
    /\ calls < MaxCalls
    /\ previous' = result
    /\ calls' = calls + 1
    /\ result' = None
    /\ pc' = "tables"
    /\ UNCHANGED <<ingestion, detector, config, args, chunks, stack, split>>

\* chunk_document is called again on the same chunker with the same
\* arguments: chunks = [].
CallAgain ==
    /\ pc = "done"
    /\ calls < MaxCalls
    /\ previous' = result
    /\ calls' = calls + 1
    /\ chunks' = <<>>
    /\ result' = None
    /\ pc' = "tables"
    /\ UNCHANGED <<ingestion, detector, config, args, stack, split>>

Next ==
    \/ ChunkTables
    \/ Descend
    \/ SkipEmpty
    \/ EmitSingle
    \/ EnterSplit
    \/ SplitStep
    \/ SplitReturn
    \/ Ascend
    \/ Return

Spec == Init /\ [][Next]_vars

\* Calls repeated on the documents of several sections and tables.
InitTwice == InitTree /\ Called /\ DetectorIdle /\ IngestIdle
NextTwice == Next \/ CallAgain
SpecTwice == InitTwice /\ [][NextTwice]_vars

\* ------------------------------------------------- reading the section tree

\* The section a path of 1-based positions leads to.
RECURSIVE SectionAt(_, _)
SectionAt(secs, path) ==
    IF Len(path) = 1 THEN secs[path[1]]
    ELSE SectionAt(secs[path[1]].subsections, Tail(path))

\* The titles of the sections along a path, outermost first, its own last.
RECURSIVE TitlesAlong(_, _)
TitlesAlong(secs, path) ==
    IF path = <<>> THEN <<>>
    ELSE <<secs[path[1]].title>> \o TitlesAlong(secs[path[1]].subsections, Tail(path))

\* The paths of the leaf sections below a list of sections.
RECURSIVE LeafPaths(_, _)
LeafPaths(secs, pre) ==
    UNION {IF secs[k].subsections = <<>> THEN {pre \o <<k>>}
           ELSE LeafPaths(secs[k].subsections, pre \o <<k>>) : k \in 1..Len(secs)}

Leaves == LeafPaths(sections, <<>>)
PrefixAt(path) == BuildContextPrefix(doc_title, TitlesAlong(sections, path))
ContentAt(path) == Strip(SectionAt(sections, path).content)

\* Document order of two paths: p comes before q, or is q.
RECURSIVE PathLeq(_, _)
PathLeq(p, q) ==
    IF p = <<>> THEN TRUE
    ELSE IF q = <<>> THEN FALSE
    ELSE IF p[1] # q[1] THEN p[1] < q[1]
    ELSE PathLeq(Tail(p), Tail(q))

IsText(c) == c.origin.kind = "section"
IsTable(c) == c.origin.kind = "table"

\* The chunks of a list that were built from the leaf at a path, in order.
PiecesOf(cs, path) == SelectSeq(cs, LAMBDA c : IsText(c) /\ c.origin.path = path)

\* One iteration of the splitter loop has just run.
Iterated == pc = "split" /\ split.iter > 0
\* This step is one iteration of the splitter loop.
IsIteration == pc = "split" /\ pc' = "split" /\ split'.iter = split.iter + 1

\* ----------------------------------------------------------------- claims

\* C1: the splitter loop terminates for every content, prefix and
\* configuration, because every iteration leaves `start` strictly greater
\* than it found it.  The code does not do this when the prefix is as long
\* as target_size or longer (budget <= 0): `start` stays or moves back and
\* the loop never ends.
C1_StartStrictlyIncreases ==
    [][IsIteration => split'.start > split.start]_vars

Oversized(path) ==
    /\ ContentAt(path) # <<>>
    /\ Len(PrefixAt(path)) + Len(ContentAt(path)) > target_size

\* The offsets of the content that the text of a piece holds: those of the
\* slice content[start:end] that trimming keeps.
KeptOffsets(c, content) ==
    LET solid == {q \in c.origin.start..(c.origin.end - 1) : ~IsSpace(content[q + 1])}
    IN  IF solid = {} THEN {} ELSE MinOf(solid)..MaxOf(solid)

\* Adjacent pieces of a leaf share at most `overlap` characters of content.
OverlapWithinBudget(ps) ==
    \A k \in 1..(Len(ps) - 1) : ps[k].origin.end - ps[k + 1].origin.start <= overlap

\* C2, as claimed: in what chunk_document returns, the pieces of an oversized
\* leaf hold every character of its trimmed content, and adjacent pieces
\* share at most `overlap` characters.
C2_NothingDropped ==
    pc = "done" =>
        \A p \in Leaves : Oversized(p) =>
            LET ps == PiecesOf(result, p)
            IN  /\ \A q \in 0..(Len(ContentAt(p)) - 1) :
                       \E k \in 1..Len(ps) : q \in KeptOffsets(ps[k], ContentAt(p))
                /\ OverlapWithinBudget(ps)

\* C2, amended: the text of every piece is the prefix followed by a trimmed
\* slice content[start:end]; the pieces hold every character of the content
\* that is not whitespace (what is dropped is whitespace at the edges of a
\* slice); adjacent pieces share at most `overlap` characters.
C2_OnlyWhitespaceDropped ==
    pc = "done" =>
        \A p \in Leaves : Oversized(p) =>
            LET ps == PiecesOf(result, p)
            IN  /\ \A k \in 1..Len(ps) :
                       ps[k].text = PrefixAt(p) \o Strip(Slice(ContentAt(p),
                                        ps[k].origin.start, ps[k].origin.end))
                /\ \A q \in 0..(Len(ContentAt(p)) - 1) :
                       ~IsSpace(ContentAt(p)[q + 1]) =>
                           \E k \in 1..Len(ps) : q \in KeptOffsets(ps[k], ContentAt(p))
                /\ OverlapWithinBudget(ps)

\* C2's case: a returned split whose pieces overlap and which dropped a
\* whitespace character.
C2_Witness ==
    /\ pc = "done"
    /\ \E p \in Leaves :
           /\ Oversized(p)
           /\ LET ps == PiecesOf(result, p)
              IN  /\ \E k \in 1..(Len(ps) - 1) :
                         ps[k].origin.end > ps[k + 1].origin.start
                  /\ \E q \in 0..(Len(ContentAt(p)) - 1) :
                         \A k \in 1..Len(ps) : q \notin KeptOffsets(ps[k], ContentAt(p))

\* C3, as claimed: for every leaf, prefix and trimmed content within
\* target_size give exactly one chunk, and more than target_size give more
\* than one.
C3_OneChunkIffFits ==
    pc = "done" =>
        \A p \in Leaves :
            IF Len(PrefixAt(p)) + Len(ContentAt(p)) <= target_size
            THEN Len(PiecesOf(result, p)) = 1
            ELSE Len(PiecesOf(result, p)) > 1

\* C3, amended: that holds for every leaf whose trimmed content is not
\* empty; a leaf whose trimmed content is empty gives no chunk.
C3_OneChunkIffFitsNonEmpty ==
    pc = "done" =>
        \A p \in Leaves :
            IF ContentAt(p) = <<>> THEN Len(PiecesOf(result, p)) = 0
            ELSE IF Len(PrefixAt(p)) + Len(ContentAt(p)) <= target_size
            THEN Len(PiecesOf(result, p)) = 1
            ELSE Len(PiecesOf(result, p)) > 1

\* C3's case: a returned document with an empty leaf, a leaf that fits and
\* a leaf that, with its prefix, does not.
C3_Witness ==
    /\ pc = "done"
    /\ \E p \in Leaves : ContentAt(p) = <<>> /\ Len(PiecesOf(result, p)) = 0
    /\ \E p \in Leaves :
           /\ ContentAt(p) # <<>>
           /\ ~Oversized(p)
           /\ Len(PiecesOf(result, p)) = 1
    /\ \E p \in Leaves :
           /\ Oversized(p) /\ PrefixAt(p) # <<>>
           /\ Len(ContentAt(p)) <= target_size
           /\ Len(PiecesOf(result, p)) > 1

C5_OneChunkPerTable ==
    pc # "tables" =>
        LET table_chunks == SelectSeq(chunks, LAMBDA c : c.chunk_type # "text")
        IN  /\ Len(table_chunks) = Len(tables)
            /\ \A k \in 1..Len(tables) :
                   /\ table_chunks[k].origin.index = k - 1
                   /\ table_chunks[k].text = TableText(tables[k])
                   /\ table_chunks[k].structured_data = FormatTableAsJson(tables[k])
                   /\ table_chunks[k].structured_data # None
            /\ \A k \in 1..Len(chunks) :
                   chunks[k].chunk_type = "text" => chunks[k].structured_data = None

\* C5's case: a returned call with preserve_tables off, three tables (one
\* of them with two registers) and a text chunk.
C5_Witness ==
    /\ pc = "done"
    /\ ~preserve_tables
    /\ Len(tables) = 3
    /\ \E k \in 1..Len(result) : result[k].chunk_type = "text"

\* C6: every text chunk is built from a leaf: the section at its origin has
\* no subsection, the chunk's text is that leaf's prefix and a trimmed slice
\* of that leaf's content, and its metadata are that leaf's title and level.
C6_OnlyLeavesChunked ==
    \A k \in 1..Len(chunks) :
        chunks[k].chunk_type = "text" =>
            LET o == chunks[k].origin
                leaf == SectionAt(sections, o.path)
            IN  /\ leaf.subsections = <<>>
                /\ chunks[k].text =
                       PrefixAt(o.path) \o Strip(Slice(Strip(leaf.content), o.start, o.end))
                /\ chunks[k].metadata.section_title = leaf.title
                /\ chunks[k].metadata.section_level = leaf.level

\* C6's case: a returned document whose first section has content of its
\* own and subsections, with chunks from the leaves below it.
C6_Witness ==
    /\ pc = "done"
    /\ sections[1].subsections # <<>>
    /\ Strip(sections[1].content) # <<>>
    /\ \E k \in 1..Len(result) :
           /\ result[k].chunk_type = "text"
           /\ Len(result[k].origin.path) > 1

\* C8: no two chunks of what one call returns share an id.  The code gives
\* two chunks of the same text the same id.
C8_IdsDistinct ==
    pc = "done" =>
        \A a \in 1..Len(result) : \A b \in 1..Len(result) :
            a # b => result[a].id # result[b].id

C10_Ordered ==
    pc = "done" =>
        \A a \in 1..Len(result) : \A b \in 1..Len(result) :
            a < b =>
                LET x == result[a]
                    y == result[b]
                IN  /\ y.chunk_type # "text" => x.chunk_type # "text"
                    /\ (x.chunk_type # "text" /\ y.chunk_type # "text") =>
                           /\ x.origin.index < y.origin.index
                           /\ x.text = TableText(tables[x.origin.index + 1])
                    /\ (x.chunk_type = "text" /\ y.chunk_type = "text") =>
                           /\ PathLeq(x.origin.path, y.origin.path)
                           /\ x.origin.path = y.origin.path =>
                                  x.origin.start < y.origin.start

\* C10's case: a returned call with several tables, chunks of two leaves
\* and a leaf split in more than two pieces.
C10_Witness ==
    /\ pc = "done"
    /\ Len(tables) > 1
    /\ \E p \in Leaves : \E q \in Leaves :
           /\ p # q
           /\ Len(PiecesOf(result, p)) > 2
           /\ Len(PiecesOf(result, q)) > 0

\* ------------------------------------------------- the text of a table chunk

\* text.split("\n"): the lines of a text.
RECURSIVE SplitLines(_, _)
SplitLines(text, cur) ==
    IF text = <<>> THEN <<cur>>
    ELSE IF text[1] = NL THEN <<cur>> \o SplitLines(Tail(text), <<>>)
    ELSE SplitLines(Tail(text), Append(cur, text[1]))

\* The positions of the "## {name}" lines among the lines of a text.
HeadingLines(lines) ==
    {j \in 1..Len(lines) : lines[j] # <<>> /\ lines[j][1] = "## "}

\* The k-th smallest member of a set of numbers.
NthOf(S, k) == CHOOSE j \in S : Cardinality({i \in S : i < j}) = k - 1

\* Whether a register has an optional value.
HasValue(v) == v # None /\ v # <<>>

\* The segments a detail line is to hold, as <<present, text>> pairs in the
\* order Address, Offset, Width, Reset, Access.
DetailSegments(r) ==
    << <<HasValue(r.address), <<"Address: ">> \o r.address>>,
       <<HasValue(r.offset), <<"Offset: ">> \o r.offset>>,
       <<TRUE, <<"Width: ">> \o IntStr(r.width) \o <<"-bit">> >>,
       <<HasValue(r.reset_value), <<"Reset: ">> \o r.reset_value>>,
       <<TRUE, <<"Access: ">> \o r.access>> >>

\* The present segments from position k on, each after the first one written
\* following a " | ".
RECURSIVE PipeJoined(_, _, _)
PipeJoined(segs, k, first) ==
    IF k > Len(segs) THEN <<>>
    ELSE IF segs[k][1]
         THEN (IF first THEN <<>> ELSE <<" | ">>) \o segs[k][2]
              \o PipeJoined(segs, k + 1, FALSE)
         ELSE PipeJoined(segs, k + 1, first)

\* C14: in the text of every table chunk returned, the line directly after
\* the k-th "## {name}" line is the " | "-joined list of the segments
\* Address, Offset, Width, Reset, Access of the k-th register, in that order,
\* Width and Access always and the others exactly when the register has the
\* value; for width 32, access RW and no address, offset or reset the line
\* is exactly "Width: 32-bit | Access: RW".
C14_DetailLine ==
    pc = "done" =>
        \A n \in 1..Len(result) :
            IsTable(result[n]) =>
                LET table == tables[result[n].origin.index + 1]
                    lines == SplitLines(result[n].text, <<>>)
                    heads == HeadingLines(lines)
                IN  /\ Cardinality(heads) = Len(table.registers)
                    /\ \A k \in 1..Len(table.registers) :
                        LET r == table.registers[k]
                            j == NthOf(heads, k)
                        IN  /\ lines[j] = <<"## ">> \o r.name
                            /\ j < Len(lines)
                            /\ lines[j + 1] = PipeJoined(DetailSegments(r), 1, TRUE)
                            /\ (r.width = 32 /\ r.access = <<"RW">>
                                /\ ~HasValue(r.address) /\ ~HasValue(r.offset)
                                /\ ~HasValue(r.reset_value))
                               => lines[j + 1] = <<"Width: ", "32", "-bit", " | ",
                                                  "Access: ", "RW">>

\* A call has returned the chunk of a table with a register that has every
\* optional value, one that has none, and one that has only some.
C14_Witness ==
    /\ pc = "done"
    /\ \E n \in 1..Len(result) :
        /\ IsTable(result[n])
        /\ \E r \in {tables[result[n].origin.index + 1].registers[k] :
                      k \in 1..Len(tables[result[n].origin.index + 1].registers)} :
            /\ HasValue(r.address) /\ ~HasValue(r.offset) /\ HasValue(r.reset_value)
    /\ \E n \in 1..Len(result) :
        /\ IsTable(result[n])
        /\ \E r \in {tables[result[n].origin.index + 1].registers[k] :
                      k \in 1..Len(tables[result[n].origin.index + 1].registers)} :
            /\ ~HasValue(r.address) /\ ~HasValue(r.offset) /\ ~HasValue(r.reset_value)
            /\ r.width = 32 /\ r.access = <<"RW">>

\* ------------------------------------------------------- pieces of a split

\* The section content a text chunk holds: content[start:end].strip().
HeldContent(c) == Strip(Slice(ContentAt(c.origin.path), c.origin.start, c.origin.end))

\* C16: every text chunk a call returns holds section content: the slice
\* content[start:end] it was built from does not trim to empty, so its text
\* is not the prefix alone, whether the prefix is empty or not.
C16_PieceHoldsContent ==
    pc = "done" =>
        \A k \in 1..Len(result) :
            IsText(result[k]) =>
                /\ HeldContent(result[k]) # <<>>
                /\ result[k].text # PrefixAt(result[k].origin.path)

\* C17: among the chunks a call returns for one leaf section the end
\* offsets are strictly increasing: every chunk after the first reaches
\* beyond the end of the chunk before it.
C17_EndsStrictlyIncrease ==
    pc = "done" =>
        \A p \in Leaves :
            LET pieces == PiecesOf(result, p)
            IN  \A k \in 2..Len(pieces) :
                    pieces[k].origin.end > pieces[k - 1].origin.end

\* --------------------------------------------------------- the overlap rule

\* The boundaries of a list that fall within [lo, hi], and those that fall
\* within (lo, hi].
BoundariesWithin(bs, lo, hi) == SelectSeq(bs, LAMBDA b : lo <= b /\ b <= hi)
BoundariesAfter(bs, lo, hi) == SelectSeq(bs, LAMBDA b : lo < b /\ b <= hi)

\* The next start the overlap rule gives for the boundaries found in the
\* region: the second-to-last of two or more, the only one, chunk_end for
\* none; chunk_end when that is not below chunk_end.
OverlapRule(found, chunk_end) ==
    LET n == Len(found)
        overlap_start == IF n >= 2 THEN found[n - 1]
                         ELSE IF n = 1 THEN found[1] ELSE chunk_end
    IN  IF overlap_start < chunk_end THEN overlap_start ELSE chunk_end

\* C19: in a split with budget > 0, the start every iteration leaves is the
\* one the overlap rule gives for the boundaries of the section's boundary
\* list that fall in the region from max(start, end - overlap) to end, the
\* region read with or without its lower end.
C19_NextStartByBoundaryList ==
    [][(IsIteration /\ split.budget > 0) =>
          LET chunk_end == split'.end
              region_start == MaxOf({split.start, chunk_end - overlap})
              section_boundaries == FindSentenceBoundaries(split.content)
          IN  split'.start \in
                  {OverlapRule(BoundariesWithin(section_boundaries,
                                                region_start, chunk_end), chunk_end),
                   OverlapRule(BoundariesAfter(section_boundaries,
                                               region_start, chunk_end), chunk_end)}
      ]_vars

\* ------------------------------------------------------ the end of a chunk

\* Range(f): the members of a sequence.
Members(seq) == {seq[k] : k \in 1..Len(seq)}

\* The end the rule of the splitter gives the chunk that starts at st: the
\* end of the content for the final chunk; otherwise the greatest sentence
\* boundary in (st, st + budget], or one past the last space in
\* (st, st + budget), or st + budget.
EndRule(content, st, budget) ==
    IF st + budget < Len(content)
    THEN LET bs == {b \in Members(FindSentenceBoundaries(content)) :
                        st < b /\ b <= st + budget}
             ps == {p \in 0..(Len(content) - 1) :
                        st < p /\ p < st + budget /\ content[p + 1] = SP}
         IN  IF bs # {} THEN MaxOf(bs)
             ELSE IF ps # {} THEN MaxOf(ps) + 1
             ELSE st + budget
    ELSE Len(content)

\* C20: the end every iteration of the splitter loop chooses is the one the
\* rule gives for its start and the budget.
C20_EndByRule ==
    [][IsIteration => split'.end = EndRule(split.content, split.start, split.budget)]_vars

\* ========================================================= table detector

\* Bounds of the pages and calls of the detector.
MaxBlocks == 7
MaxContextLines == 3

\* TableDetector.REGISTER_MAP_HEADERS, BITFIELD_HEADERS, MEMORY_MAP_HEADERS
REGISTER_MAP_HEADERS ==
    {<<"address">>, <<"offset">>, <<"register">>, <<"name">>, <<"width">>,
     <<"reset">>, <<"access">>, <<"description">>}
BITFIELD_HEADERS ==
    {<<"field">>, <<"bit">>, <<"bits">>, <<"range">>, <<"type">>, <<"access">>,
     <<"reset">>, <<"description">>}
MEMORY_MAP_HEADERS ==
    {<<"peripheral">>, <<"base">>, <<"address">>, <<"size">>, <<"description">>}

\* The thresholds of the detector.
RowTolerance == 5
EdgeTolerance == 50
MinTableHeight == 20
ContextDistance == 100

\* TextBlock(text, bbox) and the members of its bbox (x0, y0, x1, y1).
TextBlock(text, x0, y0, x1, y1) == [text |-> text, bbox |-> <<x0, y0, x1, y1>>]
X0(b) == b.bbox[1]
Y0(b) == b.bbox[2]
X1(b) == b.bbox[3]
Y1(b) == b.bbox[4]

Abs(n) == IF n < 0 THEN -n ELSE n

\* sorted(blocks, key=lambda b: b.bbox[k - 1]): a stable sort, blocks of
\* equal key stay in the order they had.
InsertByKey(sorted, b, k) ==
    LET n == Cardinality({j \in 1..Len(sorted) : sorted[j].bbox[k] <= b.bbox[k]})
    IN  SubSeq(sorted, 1, n) \o <<b>> \o SubSeq(sorted, n + 1, Len(sorted))
RECURSIVE SortedBy(_, _)
SortedBy(blocks, k) ==
    IF blocks = <<>> THEN <<>>
    ELSE InsertByKey(SortedBy(SubSeq(blocks, 1, Len(blocks) - 1), k),
                     blocks[Len(blocks)], k)

\* A loop that measures each block against the block before it, not against
\* the first block of the row.
RECURSIVE GroupLoopChained(_, _, _, _)
GroupLoopChained(rest, current_row, current_y, done) ==
    IF rest = <<>> THEN Append(done, SortedBy(current_row, 1))
    ELSE IF Abs(Y0(rest[1]) - current_y) <= RowTolerance
         THEN GroupLoopChained(Tail(rest), Append(current_row, rest[1]),
                               Y0(rest[1]), done)
         ELSE GroupLoopChained(Tail(rest), <<rest[1]>>, Y0(rest[1]),
                               Append(done, SortedBy(current_row, 1)))

\* The loop of _group_blocks_into_rows over sorted_blocks[1:], and the row
\* appended after it.
RECURSIVE GroupLoop(_, _, _, _)
GroupLoop(rest, current_row, current_y, done) ==
    IF rest = <<>> THEN Append(done, SortedBy(current_row, 1))
    ELSE IF Abs(Y0(rest[1]) - current_y) <= RowTolerance
         THEN GroupLoop(Tail(rest), Append(current_row, rest[1]), current_y, done)
         ELSE GroupLoop(Tail(rest), <<rest[1]>>, Y0(rest[1]),
                        Append(done, SortedBy(current_row, 1)))

\* _group_blocks_into_rows(blocks)
GroupBlocksIntoRows(blocks) ==
    IF blocks = <<>> THEN <<>>
    ELSE LET sorted_blocks == SortedBy(blocks, 2)
         IN  GroupLoop(Tail(sorted_blocks), <<sorted_blocks[1]>>,
                       Y0(sorted_blocks[1]), <<>>)

\* str.lower() on the words the pages use.
LowerAtom(a) ==
    CASE a = "Address" -> "address" [] a = "Offset" -> "offset"
      [] a = "Name" -> "name" [] a = "Base" -> "base"
      [] a = "Description" -> "description" [] a = "Field" -> "field"
      [] a = "Bits" -> "bits" [] a = "Access" -> "access"
      [] a = "UART" -> "uart" [] a = "Register" -> "register"
      [] a = "Table" -> "table" [] a = "Note" -> "note"
      [] a = "SR" -> "sr" [] a = "RO" -> "ro"
      [] a = "RW" -> "rw"
      [] OTHER -> a
LowerText(text) == [k \in 1..Len(text) |-> LowerAtom(text[k])]

\* re.sub(r'[^\w\s]', '', text): the punctuation marks are removed.
Punctuation == {".", ":", "!", "?", "(", ")", "-", "/", ","}
RemovePunctuation(text) == SelectSeq(text, LAMBDA a : a \notin Punctuation)

\* _extract_header_keywords(row)
ExtractHeaderKeywords(row) ==
    {RemovePunctuation(Strip(LowerText(row[k].text))) : k \in 1..Len(row)}

\* An acceptance test that takes one memory keyword for a header.
IsLikelyTableHeaderOneMemory(kws) ==
    \/ Cardinality(kws \cap REGISTER_MAP_HEADERS) >= 3
    \/ Cardinality(kws \cap BITFIELD_HEADERS) >= 3
    \/ Cardinality(kws \cap MEMORY_MAP_HEADERS) >= 1

\* _is_likely_table_header(keywords)
IsLikelyTableHeader(kws) ==
    LET register_match == Cardinality(kws \cap REGISTER_MAP_HEADERS)
        bitfield_match == Cardinality(kws \cap BITFIELD_HEADERS)
        memory_match == Cardinality(kws \cap MEMORY_MAP_HEADERS)
    IN  IF register_match >= 3 THEN TRUE
        ELSE IF bitfield_match >= 3 THEN TRUE
        ELSE IF memory_match >= 2 THEN TRUE
        ELSE FALSE

\* A classification that prefers the bitfield type on a tie.
ClassifyTableTypeBitfieldFirst(kws) ==
    LET register_score == Cardinality(kws \cap REGISTER_MAP_HEADERS)
        bitfield_score == Cardinality(kws \cap BITFIELD_HEADERS)
        memory_score == Cardinality(kws \cap MEMORY_MAP_HEADERS)
        max_score == MaxOf({register_score, bitfield_score, memory_score})
    IN  IF max_score = 0 THEN "other"
        ELSE IF bitfield_score = max_score THEN "bitfield_definition"
        ELSE IF register_score = max_score THEN "register_map"
        ELSE "memory_map"

\* _classify_table_type(keywords): the value of the TableType.
ClassifyTableType(kws) ==
    LET register_score == Cardinality(kws \cap REGISTER_MAP_HEADERS)
        bitfield_score == Cardinality(kws \cap BITFIELD_HEADERS)
        memory_score == Cardinality(kws \cap MEMORY_MAP_HEADERS)
        max_score == MaxOf({register_score, bitfield_score, memory_score})
    IN  IF max_score = 0 THEN "other"
        ELSE IF register_score = max_score THEN "register_map"
        ELSE IF bitfield_score = max_score THEN "bitfield_definition"
        ELSE "memory_map"

\* A loop that passes over a row failing a test and goes on with the next.
RECURSIVE ExtendRegionSkipping(_, _, _, _, _, _)
ExtendRegionSkipping(rws, i, x0, x1, num_cols, y1) ==
    IF i >= Len(rws) THEN [y1 |-> y1, stop |-> i]
    ELSE LET row == rws[i + 1]
             row_x0 == MinOf({X0(row[k]) : k \in 1..Len(row)})
             row_x1 == MaxOf({X1(row[k]) : k \in 1..Len(row)})
         IN  IF \/ Len(row) < MaxOf({2, num_cols - 2})
                \/ Abs(row_x0 - x0) > EdgeTolerance
                \/ Abs(row_x1 - x1) > EdgeTolerance
             THEN ExtendRegionSkipping(rws, i + 1, x0, x1, num_cols, y1)
             ELSE ExtendRegionSkipping(rws, i + 1, x0, x1, num_cols,
                                       MaxOf({Y1(row[k]) : k \in 1..Len(row)}))

\* The loop of _extract_table_region from rows[i] on: the y1 it ends with
\* and the index of the row it stopped at (len(rows) when none stopped it).
RECURSIVE ExtendRegion(_, _, _, _, _, _)
ExtendRegion(rws, i, x0, x1, num_cols, y1) ==
    IF i >= Len(rws) THEN [y1 |-> y1, stop |-> i]
    ELSE LET row == rws[i + 1]
             row_x0 == MinOf({X0(row[k]) : k \in 1..Len(row)})
             row_x1 == MaxOf({X1(row[k]) : k \in 1..Len(row)})
         IN  IF Len(row) < MaxOf({2, num_cols - 2}) THEN [y1 |-> y1, stop |-> i]
             ELSE IF Abs(row_x0 - x0) > EdgeTolerance \/ Abs(row_x1 - x1) > EdgeTolerance
                  THEN [y1 |-> y1, stop |-> i]
                  ELSE ExtendRegion(rws, i + 1, x0, x1, num_cols,
                                    MaxOf({Y1(row[k]) : k \in 1..Len(row)}))

\* _extract_table_region(page, rows, header_row_idx): <<>> is None, and
\* <<region>> a TableRegion.  origin is not a field of the code's
\* TableRegion: it records the header row and the row the region stopped at.
ExtractTableRegion(pg, rws, header_row_idx) ==
    IF header_row_idx >= Len(rws) THEN <<>>
    ELSE LET header_row == rws[header_row_idx + 1]
             header_keywords == ExtractHeaderKeywords(header_row)
             table_type == ClassifyTableType(header_keywords)
             x0 == MinOf({X0(header_row[k]) : k \in 1..Len(header_row)})
             x1 == MaxOf({X1(header_row[k]) : k \in 1..Len(header_row)})
             y0 == MinOf({Y0(header_row[k]) : k \in 1..Len(header_row)})
             num_cols == Len(header_row)
             ext == ExtendRegion(rws, header_row_idx + 1, x0, x1, num_cols, y0)
         IN  IF ext.y1 - y0 < MinTableHeight THEN <<>>
             ELSE << [page_num |-> pg.page_num,
                      bbox |-> <<x0, y0, x1, ext.y1>>,
                      table_type |-> table_type,
                      header_keywords |-> header_keywords,
                      origin |-> [header |-> header_row_idx, stop |-> ext.stop]] >>

\* The blocks detect_table_context collects, in page order.
ContextBlocks(pg, table_region) ==
    SelectSeq(pg.blocks,
              LAMBDA b : /\ Y1(b) < table_region.bbox[2]
                         /\ table_region.bbox[2] - Y1(b) < ContextDistance)

\* context_blocks[-context_lines:]
LastBlocks(sorted, context_lines) == Slice(sorted, -context_lines, Len(sorted))

\* detect_table_context(page, table_region, context_lines)
DetectTableContext(pg, table_region, context_lines) ==
    LET context_blocks == LastBlocks(SortedBy(ContextBlocks(pg, table_region), 2),
                                     context_lines)
    IN  JoinText([k \in 1..Len(context_blocks) |-> context_blocks[k].text], <<SP>>)

\* ---------------------------------------------------- pages and keywords

\* The blocks pages are made of.  Above the table: blocks whose bottom is
\* 100, 99 and 1 units above y = 200 and one that touches it.  At the top of
\* the table: three register keywords at y = 200, a memory keyword 4 units
\* lower and a keyword 6 units lower.  Below: a row at y = 212 with a tall
\* cell, a row at y = 218 that ends above that cell's bottom, and a row at
\* y = 226 that ends below it.
BlockPool ==
    << TextBlock(<<"UART">>, 0, 90, 40, 100),
       TextBlock(<<"Register", SP, "map">>, 0, 95, 40, 101),
       TextBlock(<<"Table">>, 50, 95, 90, 199),
       TextBlock(<<"Note">>, 50, 190, 90, 200),
       TextBlock(<<"Address">>, 0, 200, 40, 208),
       TextBlock(<<"Offset", ":">>, 50, 200, 90, 208),
       TextBlock(<<SP, "Name">>, 101, 200, 141, 208),
       TextBlock(<<"Base">>, 150, 204, 190, 212),
       TextBlock(<<"Description", SP, ".">>, 101, 206, 141, 230),
       TextBlock(<<"Field">>, 0, 212, 40, 220),
       TextBlock(<<"Bits">>, 50, 212, 90, 240),
       TextBlock(<<"Access">>, 101, 212, 141, 220),
       TextBlock(<<"0x04">>, 0, 218, 40, 219),
       TextBlock(<<"SR">>, 50, 218, 90, 232),
       TextBlock(<<"RO">>, 101, 218, 141, 219),
       TextBlock(<<"0x08">>, 0, 226, 40, 250),
       TextBlock(<<"RW">>, 101, 226, 141, 250) >>

\* The blocks of the pool at the positions in S, in pool order.
RECURSIVE Pick(_, _)
Pick(S, i) ==
    IF i > Len(BlockPool) THEN <<>>
    ELSE (IF i \in S THEN <<BlockPool[i]>> ELSE <<>>) \o Pick(S, i + 1)

Reversed(seq) == [k \in 1..Len(seq) |-> seq[Len(seq) + 1 - k]]

\* page.blocks: at most MaxBlocks blocks of the pool, top to bottom or
\* bottom to top.
BlockLists ==
    LET picked == {Pick(S, 1) : S \in {T \in SUBSET (1..Len(BlockPool)) :
                                          Cardinality(T) <= MaxBlocks}}
    IN  picked \cup {Reversed(bl) : bl \in picked}

\* The words the keyword sets given to _classify_table_type are made of.
Vocabulary ==
    {<<"address">>, <<"offset">>, <<"register">>, <<"description">>,
     <<"access">>, <<"reset">>, <<"field">>, <<"bits">>, <<"peripheral">>,
     <<"base">>, <<"uart">>, <<>>}

\* No SemanticChunker is at work.
NotCalled ==
    /\ target_size = 2500
    /\ overlap = 200
    /\ preserve_tables = TRUE
    /\ doc_id = "doc"
    /\ sections = <<>>
    /\ tables = <<>>
    /\ doc_title = <<>>
    /\ table_pages = <<>>
    /\ pc = "idle"
    /\ chunks = <<>>
    /\ stack = <<>>
    /\ split = NoSplit
    /\ result = None
    /\ calls = 0
    /\ previous = None

\* detect_register_tables(page) has been called.
InitDetect ==
    /\ page \in {[page_num |-> 1, blocks |-> bl] : bl \in BlockLists}
    /\ keywords = {}
    /\ dpc = "group"
    /\ rows = <<>>
    /\ row_idx = 0
    /\ regions = <<>>
    /\ detected = <<>>
    /\ context = NoContext
    /\ classified = "none"

\* _classify_table_type(keywords) has been called.
InitClassify ==
    /\ page = [page_num |-> 0, blocks |-> <<>>]
    /\ keywords \in SUBSET Vocabulary
    /\ dpc = "classify"
    /\ rows = <<>>
    /\ row_idx = 0
    /\ regions = <<>>
    /\ detected = <<>>
    /\ context = NoContext
    /\ classified = "none"

InitDetector == (InitDetect \/ InitClassify) /\ NotCalled /\ IngestIdle

\* ------------------------------------------------------ detector actions

\* detect_register_tables to its loop: tables = [] and the rows are grouped.
GroupRows ==
    /\ dpc = "group"
    /\ rows' = GroupBlocksIntoRows(page.blocks)
    /\ row_idx' = 0
    /\ regions' = <<>>
    /\ dpc' = "rows"
    /\ UNCHANGED <<ingestion, chunker, page, keywords, detected, context, classified>>

\* The row the loop of detect_register_tables is at, and its keywords.
HasRow == dpc = "rows" /\ row_idx < Len(rows)
CurRowKeywords == ExtractHeaderKeywords(rows[row_idx + 1])

\* A row that is no header: the loop goes on.
NotHeader ==
    /\ HasRow
    /\ ~IsLikelyTableHeader(CurRowKeywords)
    /\ row_idx' = row_idx + 1
    /\ UNCHANGED <<ingestion, chunker, page, keywords, dpc, rows, regions, detected, context,
                   classified>>

\* A header row whose region is returned: it is appended.
HeaderRegion ==
    /\ HasRow
    /\ IsLikelyTableHeader(CurRowKeywords)
    /\ ExtractTableRegion(page, rows, row_idx) # <<>>
    /\ regions' = regions \o ExtractTableRegion(page, rows, row_idx)
    /\ row_idx' = row_idx + 1
    /\ UNCHANGED <<ingestion, chunker, page, keywords, dpc, rows, detected, context, classified>>

\* A header row whose region is None: nothing is appended.
HeaderNoRegion ==
    /\ HasRow
    /\ IsLikelyTableHeader(CurRowKeywords)
    /\ ExtractTableRegion(page, rows, row_idx) = <<>>
    /\ row_idx' = row_idx + 1
    /\ UNCHANGED <<ingestion, chunker, page, keywords, dpc, rows, regions, detected, context,
                   classified>>

\* The loop is over: detect_register_tables returns tables.
DetectReturn ==
    /\ dpc = "rows"
    /\ row_idx >= Len(rows)
    /\ detected' = regions
    /\ dpc' = "detected"
    /\ UNCHANGED <<ingestion, chunker, page, keywords, rows, row_idx, regions, context, classified>>

\* detect_table_context(page, region, context_lines) for a region returned.
DetectContext ==
    /\ dpc \in {"detected", "context"}
    /\ \E r \in 1..Len(detected), n \in 0..MaxContextLines :
           context' = [region |-> r, context_lines |-> n,
                       text |-> DetectTableContext(page, detected[r], n)]
    /\ dpc' = "context"
    /\ UNCHANGED <<ingestion, chunker, page, keywords, rows, row_idx, regions, detected,
                   classified>>

\* _classify_table_type(keywords) returns.
ClassifyKeywords ==
    /\ dpc = "classify"
    /\ classified' = ClassifyTableType(keywords)
    /\ dpc' = "classified"
    /\ UNCHANGED <<ingestion, chunker, page, keywords, rows, row_idx, regions, detected, context>>

NextDetector ==
    \/ GroupRows
    \/ NotHeader
    \/ HeaderRegion
    \/ HeaderNoRegion
    \/ DetectReturn
    \/ DetectContext
    \/ ClassifyKeywords

SpecDetector == InitDetector /\ [][NextDetector]_vars

\* ------------------------------------------------- reading a grouped page

\* The keywords of rows[i] and their matches with a reference set.
RowKeywords(i) == ExtractHeaderKeywords(rows[i + 1])
Matches(i, reference) == Cardinality(RowKeywords(i) \cap reference)
RowIndices == 0..(Len(rows) - 1)

\* rows[i] is a header row.
IsHeaderRow(i) ==
    \/ Matches(i, REGISTER_MAP_HEADERS) >= 3
    \/ Matches(i, BITFIELD_HEADERS) >= 3
    \/ Matches(i, MEMORY_MAP_HEADERS) >= 2

\* The left edge, right edge, top and bottom of rows[i].
RowLeft(i) == MinOf({X0(rows[i + 1][k]) : k \in 1..Len(rows[i + 1])})
RowRight(i) == MaxOf({X1(rows[i + 1][k]) : k \in 1..Len(rows[i + 1])})
RowTop(i) == MinOf({Y0(rows[i + 1][k]) : k \in 1..Len(rows[i + 1])})
RowBottom(i) == MaxOf({Y1(rows[i + 1][k]) : k \in 1..Len(rows[i + 1])})

\* rows[i] is structurally consistent with the header row rows[h].
ConsistentWith(i, h) ==
    /\ Len(rows[i + 1]) >= MaxOf({2, Len(rows[h + 1]) - 2})
    /\ Abs(RowLeft(i) - RowLeft(h)) <= EdgeTolerance
    /\ Abs(RowRight(i) - RowRight(h)) <= EdgeTolerance

\* The rows of the maximal run of consistent rows directly after rows[h].
RunAfter(h) ==
    {i \in RowIndices : i > h /\ \A j \in (h + 1)..i : ConsistentWith(j, h)}

\* The type of greatest overlap score, the earliest of register, bitfield
\* and memory on a tie, and "other" when no score is positive.
Score(kws, type) ==
    CASE type = "register_map" -> Cardinality(kws \cap REGISTER_MAP_HEADERS)
      [] type = "bitfield_definition" -> Cardinality(kws \cap BITFIELD_HEADERS)
      [] type = "memory_map" -> Cardinality(kws \cap MEMORY_MAP_HEADERS)
Priority == <<"register_map", "bitfield_definition", "memory_map">>
TypeByScore(kws) ==
    LET best == MaxOf({Score(kws, Priority[k]) : k \in 1..3})
    IN  IF best = 0 THEN "other"
        ELSE Priority[MinOf({k \in 1..3 : Score(kws, Priority[k]) = best})]

\* C11, as claimed: when no row of the page has 3 or more matches with a
\* reference keyword set, detect_register_tables returns no region.
C11_EmptyBelowThreeMatches ==
    dpc = "detected" =>
        ((\A i \in RowIndices :
              /\ Matches(i, REGISTER_MAP_HEADERS) < 3
              /\ Matches(i, BITFIELD_HEADERS) < 3
              /\ Matches(i, MEMORY_MAP_HEADERS) < 3)
         => detected = <<>>)

\* C11, amended: when no row of the page has 3 register keywords, 3
\* bitfield keywords or 2 memory-map keywords, detect_register_tables
\* returns no region.
C11_EmptyWithoutHeaderRow ==
    dpc = "detected" =>
        ((\A i \in RowIndices :
              /\ Matches(i, REGISTER_MAP_HEADERS) < 3
              /\ Matches(i, BITFIELD_HEADERS) < 3
              /\ Matches(i, MEMORY_MAP_HEADERS) < 2)
         => detected = <<>>)

\* C11's case: a page returned with no region whose rows fall short of every
\* threshold, one of them by one keyword only and followed by consistent
\* rows that reach 20 units below its top.
C11_Witness ==
    /\ dpc = "detected"
    /\ detected = <<>>
    /\ \A i \in RowIndices : ~IsHeaderRow(i)
    /\ \E i \in RowIndices :
           /\ Matches(i, REGISTER_MAP_HEADERS) = 2
           /\ Matches(i, MEMORY_MAP_HEADERS) = 1
           /\ RunAfter(i) # {}
           /\ RowBottom(MaxOf(RunAfter(i))) - RowTop(i) >= MinTableHeight

\* The header rows of the page, and the height the consistent rows after
\* rows[h] span: from the top of rows[h] to the lowest bottom among them.
HeaderRows == {h \in RowIndices : IsHeaderRow(h)}
SpanBelow(h) == MaxOf({RowBottom(i) : i \in RunAfter(h)}) - RowTop(h)

\* C12: for a page whose only header row is followed by one or more
\* structurally consistent rows spanning at least 20 units below its top,
\* detect_register_tables returns exactly one region, of the type the
\* keyword-overlap score of the header row gives.
C12_OneRegionForHeaderAndRows ==
    dpc = "detected" =>
        \A h \in RowIndices :
            (HeaderRows = {h} /\ RunAfter(h) # {} /\ SpanBelow(h) >= MinTableHeight)
            => /\ Len(detected) = 1
               /\ detected[1].table_type = TypeByScore(RowKeywords(h))

\* C13: _classify_table_type returns OTHER for a keyword set that shares no
\* keyword with a reference set, and otherwise the type of greatest overlap
\* count, register before bitfield before memory on a tie;
\* {address, offset, register, description} is a REGISTER_MAP.
C13_ClassifiedByScore ==
    dpc = "classified" =>
        /\ classified = TypeByScore(keywords)
        /\ (keywords \cap (REGISTER_MAP_HEADERS \cup BITFIELD_HEADERS
                           \cup MEMORY_MAP_HEADERS) = {}) => classified = "other"
        /\ (keywords = {<<"address">>, <<"offset">>, <<"register">>,
                        <<"description">>}) => classified = "register_map"

\* C13's case: a keyword set classified as a register map whose bitfield
\* score ties with its register score above its memory score.
C13_Witness ==
    /\ dpc = "classified"
    /\ classified = "register_map"
    /\ Score(keywords, "register_map") = Score(keywords, "bitfield_definition")
    /\ Score(keywords, "memory_map") < Score(keywords, "register_map")
    /\ keywords \ (REGISTER_MAP_HEADERS \cup BITFIELD_HEADERS) # {}

\* The rows a region returned includes after its header row: those before
\* the row that stopped it.
IncludedRows(region) == (region.origin.header + 1)..(region.origin.stop - 1)

\* C15: the y1 of every region returned is the greatest bottom among the
\* blocks of the rows the region includes after its header row.
C15_BottomIsRunningMax ==
    dpc = "detected" =>
        \A r \in 1..Len(detected) :
            detected[r].bbox[4] = MaxOf({RowBottom(i) : i \in IncludedRows(detected[r])})

\* The context the rule gives: the texts, joined by single spaces in
\* ascending y0 order, of the n qualifying blocks of greatest y0 (all of
\* them when there are fewer than n), blocks of equal y0 in page order.
ContextByRule(pg, table_region, n) ==
    LET sorted == SortedBy(ContextBlocks(pg, table_region), 2)
        kept == IF n < Len(sorted) THEN n ELSE Len(sorted)
        last == SubSeq(sorted, Len(sorted) - kept + 1, Len(sorted))
    IN  JoinText([k \in 1..Len(last) |-> last[k].text], <<SP>>)

\* C18: detect_table_context returns the texts of at most context_lines
\* blocks, those of greatest y0 among the blocks whose bottom is strictly
\* above the region's top and less than 100 units from it, joined by single
\* spaces in ascending y0 order, and the empty string when none qualifies.
C18_ContextOfNearestBlocks ==
    dpc = "context" =>
        /\ context.text = ContextByRule(page, detected[context.region],
                                        context.context_lines)
        /\ ContextBlocks(page, detected[context.region]) = <<>> => context.text = <<>>

\* The y1 the rows of the run after rows[h] leave: the bottom of the last of
\* them, and the top of rows[h] when the run is empty.
RunBottom(h) ==
    IF RunAfter(h) = {} THEN RowTop(h) ELSE RowBottom(MaxOf(RunAfter(h)))

\* The regions returned that were produced from the header row rows[h].
RegionsOf(h) == {r \in 1..Len(detected) : detected[r].origin.header = h}

\* C21: a region produced from a header row includes exactly the maximal run
\* of consecutive rows directly after the header that have at least
\* max(2, num_cols - 2) blocks and left and right edges within 50 units of
\* the header's: the first row failing a test ends the region and is
\* excluded, and no later row is included; a region whose final height
\* y1 - y0 is below 20 units is not returned.
C21_RegionIsMaximalRun ==
    dpc = "detected" =>
        /\ \A r \in 1..Len(detected) :
               LET h == detected[r].origin.header
               IN  /\ h \in HeaderRows
                   /\ IncludedRows(detected[r]) = RunAfter(h)
                   /\ detected[r].bbox[4] = RunBottom(h)
                   /\ detected[r].bbox[4] - detected[r].bbox[2] >= MinTableHeight
        /\ \A h \in HeaderRows :
               RunBottom(h) - RowTop(h) < MinTableHeight => RegionsOf(h) = {}

\* C21's case: a region returned whose run was ended by a failing row, with
\* a later row that passes both tests and reaches below the region's bottom.
C21_Witness ==
    /\ dpc = "detected"
    /\ \E r \in 1..Len(detected) :
           LET h == detected[r].origin.header
               stop == detected[r].origin.stop
           IN  /\ RunAfter(h) # {}
               /\ stop < Len(rows)
               /\ ~ConsistentWith(stop, h)
               /\ \E j \in RowIndices :
                      /\ j > stop
                      /\ ConsistentWith(j, h)
                      /\ RowBottom(j) > detected[r].bbox[4]

\* The places of the rows: <<i, k>> is the k-th block of rows[i].
Placements == UNION {{<<i, k>> : k \in 1..Len(rows[i + 1])} : i \in RowIndices}

\* The rows have been grouped from the blocks of the page.
Grouped == dpc \in {"rows", "detected", "context"}

\* C22: the rows _group_blocks_into_rows returns partition the blocks (each
\* block in exactly one row, no row empty); they are ordered by ascending y0
\* of their first block; every block of a row has its y0 within 5 units of
\* the least y0 of the row, a block more than 5 units below it starts a new
\* row; each row is sorted by ascending x0; no block gives no row.
C22_RowsPartitionBlocks ==
    Grouped =>
        /\ Cardinality(Placements) = Len(page.blocks)
        /\ \A n \in 1..Len(page.blocks) :
               Cardinality({pl \in Placements :
                                rows[pl[1] + 1][pl[2]] = page.blocks[n]})
               = Cardinality({m \in 1..Len(page.blocks) :
                                  page.blocks[m] = page.blocks[n]})
        /\ \A i \in RowIndices :
               /\ rows[i + 1] # <<>>
               /\ \A k \in 1..Len(rows[i + 1]) :
                      /\ Y0(rows[i + 1][k]) >= RowTop(i)
                      /\ Y0(rows[i + 1][k]) - RowTop(i) <= RowTolerance
               /\ \A k \in 1..(Len(rows[i + 1]) - 1) :
                      X0(rows[i + 1][k]) <= X0(rows[i + 1][k + 1])
               /\ i + 1 \in RowIndices =>
                      /\ RowTop(i + 1) - RowTop(i) > RowTolerance
                      /\ Y0(rows[i + 1][1]) < Y0(rows[i + 2][1])
        /\ page.blocks = <<>> => rows = <<>>

\* C22's case: a page given bottom to top with a row started by a block that
\* is within 5 units of a lower block of the row before but more than 5
\* units below that row's first block.
C22_Witness ==
    /\ Grouped
    /\ \E m \in 1..Len(page.blocks), n \in 1..Len(page.blocks) :
           m < n /\ Y0(page.blocks[m]) > Y0(page.blocks[n])
    /\ \E i \in RowIndices :
           /\ i + 1 \in RowIndices
           /\ RowTop(i + 1) - RowTop(i) > RowTolerance
           /\ \E k \in 1..Len(rows[i + 1]) :
                  /\ Y0(rows[i + 1][k]) > RowTop(i)
                  /\ RowTop(i + 1) - Y0(rows[i + 1][k]) <= RowTolerance

\* ================================================================ ingest_pdf

\* Bound of the chunks of the document ingested.
MaxChunks == 2

\* doc_id of the file ingested, and of a document indexed earlier.
DocumentId == "d1"
OtherDocumentId == "d0"

\* The ids of the chunks chunk_document can return for the file: sequences
\* of at most MaxChunks ids, an id twice among them.
ChunkIdLists ==
    UNION {[1..n -> {"c1", "c2"}] : n \in 0..MaxChunks}

\* A chunk record of the metadata store.
ChunkRecord(chunk_id, of_doc) == [chunk_id |-> chunk_id, doc_id |-> of_doc]

\* The metadata store.  add_document and add_chunk write a record through
\* the connection; a store that commits each write has it in the database at
\* once, one that does not has it there when the connection is closed.  A
\* connection dropped without close leaves its uncommitted records out.
StoreAddDocument(md, doc) ==
    IF md.autocommit THEN [md EXCEPT !.documents = @ \cup {doc}]
    ELSE [md EXCEPT !.pending_documents = @ \cup {doc}]
StoreAddChunk(md, rec) ==
    IF md.autocommit THEN [md EXCEPT !.chunks = @ \cup {rec}]
    ELSE [md EXCEPT !.pending_chunks = @ \cup {rec}]
StoreClose(md) ==
    [md EXCEPT !.documents = @ \cup md.pending_documents,
               !.chunks = @ \cup md.pending_chunks,
               !.pending_documents = {}, !.pending_chunks = {}]
StoreDropped(md) == [md EXCEPT !.pending_documents = {}, !.pending_chunks = {}]

\* The index: the records of the database and the vector file.
Index == [documents |-> metadata.documents, chunks |-> metadata.chunks,
          saved |-> saved]

\* The indexes a call can find: nothing indexed, another document indexed,
\* this document indexed by an earlier call.
PriorIndexes ==
    { [documents |-> {}, chunks |-> {}, saved |-> <<>>],
      [documents |-> {OtherDocumentId},
       chunks |-> {ChunkRecord("c0", OtherDocumentId)}, saved |-> <<"c0">>],
      [documents |-> {DocumentId},
       chunks |-> {ChunkRecord("c1", DocumentId)}, saved |-> <<"c1">>] }

\* ingest_pdf(pdf_path) has been called.
InitIngest ==
    /\ request \in [exists : BOOLEAN, is_pdf : BOOLEAN, chunk_ids : ChunkIdLists]
    /\ ipc = "called"
    /\ ichunks = <<>>
    /\ chunk_idx = 0
    /\ before \in PriorIndexes
    /\ metadata \in {[autocommit |-> a, documents |-> before.documents,
                      chunks |-> before.chunks, pending_documents |-> {},
                      pending_chunks |-> {}] : a \in BOOLEAN}
    /\ vectors = <<>>
    /\ saved = before.saved
    /\ message = "none"
    /\ NotCalled
    /\ DetectorIdle

\* if not pdf_path_obj.exists(): return the error
ReturnNotFound ==
    /\ ipc = "called"
    /\ ~request.exists
    /\ message' = "not_found"
    /\ ipc' = "returned"
    /\ UNCHANGED <<chunker, detector, request, ichunks, chunk_idx, metadata, vectors,
                   saved, before>>

\* if not pdf_path_obj.suffix.lower() == '.pdf': return the error
ReturnNotPdf ==
    /\ ipc = "called"
    /\ request.exists
    /\ ~request.is_pdf
    /\ message' = "not_pdf"
    /\ ipc' = "returned"
    /\ UNCHANGED <<chunker, detector, request, ichunks, chunk_idx, metadata, vectors,
                   saved, before>>

\* Both tests pass: the try block is entered.
EnterTry ==
    /\ ipc = "called"
    /\ request.exists
    /\ request.is_pdf
    /\ ipc' = "parse"
    /\ UNCHANGED <<chunker, detector, request, ichunks, chunk_idx, metadata, vectors,
                   saved, message, before>>

\* The pages, the table of contents and the sections are parsed.
ParsePdf ==
    /\ ipc = "parse"
    /\ ipc' = "detect"
    /\ UNCHANGED <<chunker, detector, request, ichunks, chunk_idx, metadata, vectors,
                   saved, message, before>>

\* The tables of every page are detected and extracted.
DetectTables ==
    /\ ipc = "detect"
    /\ ipc' = "chunk"
    /\ UNCHANGED <<chunker, detector, request, ichunks, chunk_idx, metadata, vectors,
                   saved, message, before>>

\* chunks = chunker.chunk_document(doc_id, sections, all_tables)
CreateChunks ==
    /\ ipc = "chunk"
    /\ ichunks' = request.chunk_ids
    /\ ipc' = "open"
    /\ UNCHANGED <<chunker, detector, request, chunk_idx, metadata, vectors, saved,
                   message, before>>

\* The embedder, an empty VectorStore and the MetadataStore are made.
OpenIndex ==
    /\ ipc = "open"
    /\ vectors' = <<>>
    /\ ipc' = "add_document"
    /\ UNCHANGED <<chunker, detector, request, ichunks, chunk_idx, metadata, saved,
                   message, before>>

\* metadata_store.add_document(doc_id=doc_id, ...)
AddDocument ==
    /\ ipc = "add_document"
    /\ metadata' = StoreAddDocument(metadata, DocumentId)
    /\ ipc' = "embed"
    /\ UNCHANGED <<chunker, detector, request, ichunks, chunk_idx, vectors, saved,
                   message, before>>

\* embeddings = embedder.embed_batch(chunk_texts, show_progress=False)
EmbedBatch ==
    /\ ipc = "embed"
    /\ ipc' = "add_vectors"
    /\ UNCHANGED <<chunker, detector, request, ichunks, chunk_idx, metadata, vectors,
                   saved, message, before>>

\* vector_store.add_vectors(embeddings, chunk_ids)
AddVectors ==
    /\ ipc = "add_vectors"
    /\ vectors' = vectors \o ichunks
    /\ chunk_idx' = 0
    /\ ipc' = "add_chunk"
    /\ UNCHANGED <<chunker, detector, request, ichunks, metadata, saved, message,
                   before>>

\* One turn of "for chunk in chunks: metadata_store.add_chunk(...)".
AddChunk ==
    /\ ipc = "add_chunk"
    /\ chunk_idx < Len(ichunks)
    /\ metadata' = StoreAddChunk(metadata,
                                 ChunkRecord(ichunks[chunk_idx + 1], DocumentId))
    /\ chunk_idx' = chunk_idx + 1
    /\ UNCHANGED <<chunker, detector, request, ipc, ichunks, vectors, saved, message,
                   before>>

\* The loop is over: the index directory is made and the vector store saved.
SaveVectors ==
    /\ ipc = "add_chunk"
    /\ chunk_idx >= Len(ichunks)
    /\ saved' = vectors
    /\ ipc' = "close"
    /\ UNCHANGED <<chunker, detector, request, ichunks, chunk_idx, metadata, vectors,
                   message, before>>

\* metadata_store.close(), and the report of success is returned.
CloseAndReturn ==
    /\ ipc = "close"
    /\ metadata' = StoreClose(metadata)
    /\ message' = "success"
    /\ ipc' = "returned"
    /\ UNCHANGED <<chunker, detector, request, ichunks, chunk_idx, vectors, saved,
                   before>>

\* The step ingest_pdf is at raises: "except Exception" returns the error
\* message.  The store is neither closed nor rolled back.
TrySteps == {"parse", "detect", "chunk", "open", "add_document", "embed",
             "add_vectors", "add_chunk", "close"}
RaiseInTry ==
    /\ ipc \in TrySteps
    /\ metadata' = StoreDropped(metadata)
    /\ message' = "error"
    /\ ipc' = "returned"
    /\ UNCHANGED <<chunker, detector, request, ichunks, chunk_idx, vectors, saved,
                   before>>

NextIngest ==
    \/ ReturnNotFound
    \/ ReturnNotPdf
    \/ EnterTry
    \/ ParsePdf
    \/ DetectTables
    \/ CreateChunks
    \/ OpenIndex
    \/ AddDocument
    \/ EmbedBatch
    \/ AddVectors
    \/ AddChunk
    \/ SaveVectors
    \/ CloseAndReturn
    \/ RaiseInTry

SpecIngest == InitIngest /\ [][NextIngest]_vars

\* ingest_pdf has returned an error message.
ReturnedError == ipc = "returned" /\ message \in {"not_found", "not_pdf", "error"}

\* C23: whenever ingest_pdf returns an error message, no document record,
\* chunk record or vector of that document has been added to the metadata
\* store or to the saved vector store.
C23_ErrorAddsNothing ==
    ReturnedError =>
        /\ DocumentId \in metadata.documents => DocumentId \in before.documents
        /\ \A rec \in metadata.chunks :
               rec.doc_id = DocumentId => rec \in before.chunks
        /\ \A k \in 1..Len(saved) :
               saved[k] \in {request.chunk_ids[j] : j \in 1..Len(request.chunk_ids)}
               => \E j \in 1..Len(before.saved) : before.saved[j] = saved[k]

====
